---- MODULE Spec2Model ----
(***************************************************************************)
(* Transactional core of the shop-management backend: the invoice          *)
(* aggregate write pipeline (services/invoiceService.js), the payment      *)
(* allocation / status engine (services/paymentService.js), the ledger     *)
(* balance engine (utils/calculator.js, services/customerService.js), the  *)
(* sequence generator (services/sequenceService.js) and the money          *)
(* arithmetic (utils/calculator.js), over the SQLite schema.               *)
(*                                                                         *)
(* The store is one record `db` whose fields are the tables.  A handler is *)
(* an operator from a store and its arguments to [db, err, value]; an      *)
(* action applies one handler to the current store.  A decimal number sent *)
(* by a client (a rate, a payment amount) with two fractional digits is    *)
(* the pair <<whole, hundredths>>.                                         *)
(***************************************************************************)
EXTENDS Integers, Sequences, FiniteSets, TLC

VARIABLES db, cache, last, solo, everAllocated, calcItems, calcOut, draws, race

vars == <<db, cache, last, solo, everAllocated, calcItems, calcOut, draws, race>>

(***************************************************************************)
(* Bounds of the model.                                                    *)
(***************************************************************************)
MaxInvoices == 1
MaxPayments == 2
MaxItems == 3
MaxAllocs == 1
MaxDraws == 3
MaxPhotos == 1
MaxCounted == 2

Null == "null"
None == "none"

Shops == {"A", "B"}
Customers == {"cA", "cB"}
Vendors == {"vA"}
Tokens == {"T1"}
SeqKeys == {"invoice_seq", "purchase_seq", "payment_seq"}

\* The tenant whose derived values are compared with a run of its own calls only.
Observed == "B"

ShopOfParty(x) == IF x \in {"cA", "vA"} THEN "A" ELSE "B"

(***************************************************************************)
(* Helpers: sums and JavaScript's Math.round on a quotient n/d, d > 0      *)
(* (round half towards +infinity).                                         *)
(***************************************************************************)
RECURSIVE SumFn(_, _)
SumFn(f, S) ==
    IF S = {} THEN 0
    ELSE LET x == CHOOSE y \in S : TRUE IN f[x] + SumFn(f, S \ {x})

MathRound_floor(n, d) == n \div d

MathRound(n, d) == (2 * n + d) \div (2 * d)

\* Math.round(x * 100) for a two-decimal x = <<whole, hundredths>>
ToPaisa(x) == MathRound((x[1] * 100 + x[2]) * 100, 100)

(***************************************************************************)
(* Money arithmetic: utils/calculator.js calculateInvoiceTotals.           *)
(* An item is [quantity, rate, taxRate]; a taxRate that is 0 or absent is   *)
(* falsy in the source and is the number 0 here.                           *)
(***************************************************************************)
ZeroTotals ==
    [subtotal |-> 0, taxTotal |-> 0, cgst |-> 0, sgst |-> 0, igst |-> 0]

isIntraState == TRUE

LineAcc(acc, item) ==
    LET ratePaisa == ToPaisa(item.rate)
        lineTotalPaisa == item.quantity * ratePaisa
        lineTaxPaisa == MathRound(lineTotalPaisa * item.taxRate, 100)
    IN IF item.taxRate = 0
       THEN [acc EXCEPT !.subtotal = @ + lineTotalPaisa]
       ELSE IF isIntraState
            THEN [acc EXCEPT !.subtotal = @ + lineTotalPaisa,
                             !.taxTotal = @ + lineTaxPaisa,
                             !.cgst = @ + MathRound(lineTaxPaisa, 2),
                             !.sgst = @ + MathRound(lineTaxPaisa, 2)]
            ELSE [acc EXCEPT !.subtotal = @ + lineTotalPaisa,
                             !.taxTotal = @ + lineTaxPaisa,
                             !.igst = @ + lineTaxPaisa]

RECURSIVE FoldItems(_, _, _)
FoldItems(items, k, acc) ==
    IF k > Len(items) THEN acc
    ELSE FoldItems(items, k + 1, LineAcc(acc, items[k]))

RoundOffOf_swapped(grandTotalPaisa, grandTotalBeforeRound) ==
    grandTotalBeforeRound - grandTotalPaisa

RoundOffOf(grandTotalPaisa, grandTotalBeforeRound) ==
    grandTotalPaisa - grandTotalBeforeRound

calculateInvoiceTotals(items) ==
    LET Result(acc) ==
            LET grandTotalBeforeRound == acc.subtotal + acc.taxTotal
                grandTotalPaisa == MathRound(grandTotalBeforeRound, 100) * 100
            IN [subtotal |-> acc.subtotal, taxTotal |-> acc.taxTotal,
                cgst |-> acc.cgst, sgst |-> acc.sgst, igst |-> acc.igst,
                roundOff |-> RoundOffOf(grandTotalPaisa, grandTotalBeforeRound),
                grandTotal |-> grandTotalPaisa]
    IN Result(FoldItems(items, 1, ZeroTotals))

toRupees(paisa) == <<paisa \div 100, paisa % 100>>

(***************************************************************************)
(* The store (db/schema): one field per table.                             *)
(*   invoices      id -> header row; deleted_at is the time of the soft    *)
(*                 delete, 0 for NULL                                      *)
(*   snapshot      invoice id -> customer snapshot row                     *)
(*   items         invoice id -> item rows in insertion order              *)
(*   totals        invoice id -> totals row: the result of                 *)
(*                 calculateInvoiceTotals, in paise.  The INSERT names the *)
(*                 columns subtotal .. grand_total and the readers name    *)
(*                 subtotal_paisa .. grand_total_paisa (migrate_paisa.sql);*)
(*                 they are one column each here                           *)
(*   idem          request_id -> [shop_id, entity_id]  (request_id is the  *)
(*                 PRIMARY KEY of idempotency_keys)                        *)
(*   sequences     <<shop_id, key>> -> value                               *)
(*   customers, vendors   id -> [shop_id, balance_paisa]                   *)
(*   payments      id -> payment row                                       *)
(*   allocations   payment id -> allocation rows of that payment           *)
(*   audit         the audit_logs rows, as the set of their events         *)
(*                 <<shop, entity type, entity id, action>>                *)
(*   photos        photo id -> [invoice_id]  (invoice_photos)              *)
(***************************************************************************)
NoId == <<"none", 0>>

EmptyFn == [x \in {} |-> 0]

Put(f, k, v) == [x \in (DOMAIN f) \cup {k} |-> IF x = k THEN v ELSE f[x]]

Drop_none(f, k) == f

\* DELETE FROM <table> WHERE <key> = k
Drop(f, k) == [x \in (DOMAIN f) \ {k} |-> f[x]]

\* INSERT INTO invoice_items, one row per submitted item: rows are added to
\* those the invoice has
InsertItems(f, k, rows) == Put(f, k, IF k \in DOMAIN f THEN f[k] \o rows ELSE rows)

\* shopService.js initializeShopSequences: every key seeded with 1
initializeShopSequences == [sk \in Shops \X SeqKeys |-> 1]

\* the keys in the order initializeShopSequences inserts them, one autocommitted
\* INSERT OR IGNORE each; createShop inserts the shop row before it calls
\* initializeShopSequences, outside any transaction
SeqOrder == <<"invoice_seq", "purchase_seq", "payment_seq">>

\* the counters when the provisioning of shop s got as far as n[s] inserts
SequencesSeeded(n) ==
    [sk \in {x \in Shops \X SeqKeys : \E k \in 1..n[x[1]] : SeqOrder[k] = x[2]} |-> 1]

\* customerService.js createCustomer: balance and balance_paisa start at 0
InitialParties(S) == [c \in S |-> [shop_id |-> ShopOfParty(c), balance_paisa |-> 0]]

InitialDb ==
    [invoices |-> EmptyFn, snapshot |-> EmptyFn, items |-> EmptyFn,
     totals |-> EmptyFn, idem |-> EmptyFn,
     sequences |-> initializeShopSequences,
     customers |-> InitialParties(Customers),
     vendors |-> InitialParties(Vendors),
     payments |-> EmptyFn, allocations |-> EmptyFn, audit |-> {},
     photos |-> EmptyFn]

\* utils/uuid.js generateUUID: an id no row of the store carries
NewInvoiceId(d, shop) ==
    <<shop, 1 + Cardinality({i \in DOMAIN d.invoices : i[1] = shop})>>

NewPaymentId(d, shop) ==
    <<shop, CHOOSE n \in 1..(MaxPayments + 2) :
               /\ <<shop, n>> \notin DOMAIN d.payments
               /\ \A m \in 1..(n - 1) : <<shop, m>> \in DOMAIN d.payments>>

(***************************************************************************)
(* db/init.js transaction: BEGIN, run, COMMIT; on an error ROLLBACK and    *)
(* rethrow.  `run` is the outcome of the body: the store as the body left  *)
(* it (at the throw, when it threw), the error and the returned value.     *)
(***************************************************************************)
transaction_noRollback(before, run) == run

transaction(before, run) ==
    IF run.err # None
    THEN [db |-> before, err |-> run.err, value |-> run.value]
    ELSE run

(***************************************************************************)
(* The body of a handler is a list of statements.  states[k] is the store  *)
(* after statement k, errs[k] the error statement k raises (None if it     *)
(* does not).  failAt = k > 0 injects a failure right after statement k.   *)
(* The body stops at the first error; a statement that raises changes      *)
(* nothing.                                                                *)
(***************************************************************************)
FirstErr(errs) ==
    IF \E k \in 1..Len(errs) : errs[k] # None
    THEN CHOOSE k \in 1..Len(errs) :
            /\ errs[k] # None
            /\ \A j \in 1..(k - 1) : errs[j] = None
    ELSE 0

RunBody(d0, states, errs, failAt, value) ==
    LET fe == FirstErr(errs)
        NoValue == [id |-> NoId]
    IN IF fe > 0 /\ (failAt = 0 \/ failAt >= fe)
       THEN [db |-> IF fe = 1 THEN d0 ELSE states[fe - 1], err |-> errs[fe],
             value |-> NoValue]
       ELSE IF failAt > 0 /\ failAt <= Len(states)
            THEN [db |-> states[failAt], err |-> "Injected", value |-> NoValue]
            ELSE [db |-> states[Len(states)], err |-> None, value |-> value]

(***************************************************************************)
(* services/sequenceService.js                                             *)
(***************************************************************************)
getNextSequence_upsert(d, shop, key) ==
    IF <<shop, key>> \in DOMAIN d.sequences
    THEN [db |-> [d EXCEPT !.sequences[<<shop, key>>] = @ + 1],
          err |-> None, value |-> d.sequences[<<shop, key>>] + 1]
    ELSE [db |-> [d EXCEPT !.sequences = Put(@, <<shop, key>>, 1)],
          err |-> None, value |-> 1]

getNextSequence_lostUpdate(d, shop, key) ==
    IF <<shop, key>> \in DOMAIN d.sequences
    THEN [db |-> d, err |-> None, value |-> d.sequences[<<shop, key>>] + 1]
    ELSE [db |-> d, err |-> "SequenceNotFound", value |-> 0]

\* UPDATE sequences SET value = value + 1 WHERE shop_id = ? AND key = ? RETURNING value
getNextSequence(d, shop, key) ==
    IF <<shop, key>> \in DOMAIN d.sequences
    THEN [db |-> [d EXCEPT !.sequences[<<shop, key>>] = @ + 1],
          err |-> None, value |-> d.sequences[<<shop, key>>] + 1]
    ELSE [db |-> d, err |-> "SequenceNotFound", value |-> 0]

generateInvoiceNumber(d, shop) ==
    LET r == getNextSequence(d, shop, "invoice_seq")
    IN [r EXCEPT !.value = <<"INV", r.value>>]

generatePaymentNumber(d, shop) ==
    LET r == getNextSequence(d, shop, "payment_seq")
    IN [r EXCEPT !.value = <<"PAY", r.value>>]

(***************************************************************************)
(* services/auditService.js logAction                                      *)
(***************************************************************************)
logAction(d, shop, entityType, entityId, action) ==
    [d EXCEPT !.audit = @ \cup {<<shop, entityType, entityId, action>>}]

(***************************************************************************)
(* models/InvoiceAggregate.js                                              *)
(* A payload is [customerId, name, status, items]; status Null when the    *)
(* client sends none.                                                      *)
(***************************************************************************)
NullAgg == [id |-> NoId]

assembleInvoiceAggregate(id, invoice, customer, items, totals) ==
    [id |-> id,
     invoiceNumber |-> invoice.invoice_number,
     status |-> invoice.status,
     customer |-> IF customer = {} THEN [id |-> Null]
                  ELSE LET c == CHOOSE c \in customer : TRUE
                       IN [id |-> invoice.customer_id, name |-> c.name],
     items |-> [k \in 1..Len(items) |->
                   [quantity |-> items[k].quantity, rate |-> items[k].rate,
                    taxRate |-> items[k].tax_rate]],
     totals |-> IF totals = {} THEN [grandTotal |-> Null]
                ELSE LET t == CHOOSE t \in totals : TRUE
                     IN [subtotal |-> toRupees(t.subtotal),
                         taxTotal |-> toRupees(t.taxTotal),
                         cgst |-> toRupees(t.cgst),
                         sgst |-> toRupees(t.sgst),
                         igst |-> toRupees(t.igst),
                         roundOff |-> toRupees(t.roundOff),
                         grandTotal |-> toRupees(t.grandTotal)]]

decomposeInvoiceAggregate_noTax(aggregate, computedTotals) ==
    [invoice |-> [customer_id |-> aggregate.customerId,
                  status |-> IF aggregate.status = Null THEN "UNPAID"
                             ELSE aggregate.status],
     customerSnapshot |-> [name |-> aggregate.name],
     items |-> [k \in 1..Len(aggregate.items) |->
                   [quantity |-> aggregate.items[k].quantity,
                    rate |-> aggregate.items[k].rate,
                    tax_rate |-> 0]],
     totals |-> computedTotals]

decomposeInvoiceAggregate(aggregate, computedTotals) ==
    [invoice |-> [customer_id |-> aggregate.customerId,
                  status |-> IF aggregate.status = Null THEN "UNPAID"
                             ELSE aggregate.status],
     customerSnapshot |-> [name |-> aggregate.name],
     items |-> [k \in 1..Len(aggregate.items) |->
                   [quantity |-> aggregate.items[k].quantity,
                    rate |-> aggregate.items[k].rate,
                    tax_rate |-> aggregate.items[k].taxRate]],
     totals |-> computedTotals]

(***************************************************************************)
(* services/invoiceService.js                                              *)
(***************************************************************************)
RowOf(f, k) == IF k \in DOMAIN f THEN {f[k]} ELSE {}

assembleInvoice_unscoped(d, shop, invoiceId) ==
    IF invoiceId \in DOMAIN d.invoices /\ d.invoices[invoiceId].deleted_at = 0
    THEN assembleInvoiceAggregate(invoiceId, d.invoices[invoiceId],
             RowOf(d.snapshot, invoiceId),
             IF invoiceId \in DOMAIN d.items THEN d.items[invoiceId] ELSE <<>>,
             RowOf(d.totals, invoiceId))
    ELSE NullAgg

assembleInvoice_withDeleted(d, shop, invoiceId) ==
    IF invoiceId \in DOMAIN d.invoices /\ d.invoices[invoiceId].shop_id = shop
    THEN assembleInvoiceAggregate(invoiceId, d.invoices[invoiceId],
             RowOf(d.snapshot, invoiceId),
             IF invoiceId \in DOMAIN d.items THEN d.items[invoiceId] ELSE <<>>,
             RowOf(d.totals, invoiceId))
    ELSE NullAgg

\* SELECT * FROM invoices WHERE id = ? AND shop_id = ? AND deleted_at IS NULL
assembleInvoice(d, shop, invoiceId) ==
    IF /\ invoiceId \in DOMAIN d.invoices
       /\ d.invoices[invoiceId].shop_id = shop
       /\ d.invoices[invoiceId].deleted_at = 0
    THEN assembleInvoiceAggregate(invoiceId, d.invoices[invoiceId],
             RowOf(d.snapshot, invoiceId),
             IF invoiceId \in DOMAIN d.items THEN d.items[invoiceId] ELSE <<>>,
             RowOf(d.totals, invoiceId))
    ELSE NullAgg

IdemLookup_miss(d, requestId, shop) == NoId

\* SELECT entity_id FROM idempotency_keys WHERE request_id = ? AND shop_id = ?
IdemLookup(d, requestId, shop) ==
    IF requestId \in DOMAIN d.idem /\ d.idem[requestId].shop_id = shop
    THEN d.idem[requestId].entity_id
    ELSE NoId

\* SELECT id FROM invoices WHERE id = ? AND shop_id = ? (soft-deleted invoices
\* included), then INSERT INTO invoice_photos under a fresh id
addInvoicePhoto(d, shop, invoiceId) ==
    IF invoiceId \in DOMAIN d.invoices /\ d.invoices[invoiceId].shop_id = shop
    THEN LET photoId == <<"photo", 1 + Cardinality(DOMAIN d.photos)>>
         IN [db |-> [d EXCEPT !.photos = Put(@, photoId, [invoice_id |-> invoiceId])],
             err |-> None, value |-> [id |-> photoId]]
    ELSE [db |-> d, err |-> "NotFound", value |-> NullAgg]

\* a foreign key to customers(id): NULL or an existing row
CustomerFk(d, customerId) == customerId = Null \/ customerId \in DOMAIN d.customers

IdemInsertErr_none(d, requestId) == None

\* INSERT INTO idempotency_keys: request_id is the table's PRIMARY KEY, so the
\* insert of a token that already has a row raises a constraint error
IdemInsertErr(d, requestId) ==
    IF requestId # Null /\ requestId \in DOMAIN d.idem THEN "Constraint" ELSE None

\* the statements of createInvoice that follow its idempotency lookup
createInvoiceWrites(d, shop, aggregatePayload, requestId, failAt) ==
    LET invoiceId == NewInvoiceId(d, shop)
        num == generateInvoiceNumber(d, shop)
        computedTotals == calculateInvoiceTotals(aggregatePayload.items)
        decomposed == decomposeInvoiceAggregate(aggregatePayload, computedTotals)
        d1 == num.db
        d2 == [d1 EXCEPT !.invoices = Put(@, invoiceId,
                  [shop_id |-> shop, invoice_number |-> num.value,
                   customer_id |-> decomposed.invoice.customer_id,
                   status |-> decomposed.invoice.status, deleted_at |-> 0])]
        d3 == [d2 EXCEPT !.snapshot = Put(@, invoiceId, decomposed.customerSnapshot)]
        d4 == [d3 EXCEPT !.items = InsertItems(@, invoiceId, decomposed.items)]
        d5 == [d4 EXCEPT !.totals = Put(@, invoiceId, computedTotals)]
        d6 == IF requestId = Null THEN d5
              ELSE [d5 EXCEPT !.idem = Put(@, requestId,
                       [shop_id |-> shop, entity_id |-> invoiceId])]
        d7 == logAction(d6, shop, "invoice", invoiceId, "CREATE")
        headerErr ==
            IF /\ CustomerFk(d1, decomposed.invoice.customer_id)
               /\ invoiceId \notin DOMAIN d1.invoices
               /\ \A i \in DOMAIN d1.invoices :
                     ~(d1.invoices[i].shop_id = shop
                       /\ d1.invoices[i].invoice_number = num.value)
            THEN None ELSE "Constraint"
        idemErr == IdemInsertErr(d5, requestId)
    IN RunBody(d, <<d1, d2, d3, d4, d5, d6, d7>>,
               <<num.err, headerErr, None, None, None, idemErr, None>>,
               failAt, assembleInvoice(d7, shop, invoiceId))

createInvoiceBody(d, shop, aggregatePayload, requestId, failAt) ==
    LET existing == IF requestId = Null THEN NoId ELSE IdemLookup(d, requestId, shop)
    IN IF existing # NoId
       THEN [db |-> d, err |-> None, value |-> assembleInvoice(d, shop, existing)]
       ELSE createInvoiceWrites(d, shop, aggregatePayload, requestId, failAt)

createInvoice(d, shop, aggregatePayload, requestId, failAt) ==
    transaction(d, createInvoiceBody(d, shop, aggregatePayload, requestId, failAt))

\* UPDATE invoices SET customer_id, type, status, ... WHERE id = ? AND shop_id = ?
UpdateHeader(d, shop, invoiceId, row) ==
    IF invoiceId \in DOMAIN d.invoices /\ d.invoices[invoiceId].shop_id = shop
    THEN [d EXCEPT !.invoices[invoiceId].customer_id = row.customer_id,
                   !.invoices[invoiceId].status = row.status]
    ELSE d

updateInvoiceBody(d, shop, invoiceId, aggregatePayload, failAt) ==
    LET existing == /\ invoiceId \in DOMAIN d.invoices
                    /\ d.invoices[invoiceId].shop_id = shop
                    /\ d.invoices[invoiceId].deleted_at = 0
        computedTotals == calculateInvoiceTotals(aggregatePayload.items)
        decomposed == decomposeInvoiceAggregate(aggregatePayload, computedTotals)
        d2 == UpdateHeader(d, shop, invoiceId, decomposed.invoice)
        d3 == [d2 EXCEPT !.snapshot = Drop(@, invoiceId)]
        d4 == [d3 EXCEPT !.snapshot = Put(@, invoiceId, decomposed.customerSnapshot)]
        d5 == [d4 EXCEPT !.items = Drop(@, invoiceId)]
        d6 == [d5 EXCEPT !.items = InsertItems(@, invoiceId, decomposed.items)]
        d7 == [d6 EXCEPT !.totals = Drop(@, invoiceId)]
        d8 == [d7 EXCEPT !.totals = Put(@, invoiceId, computedTotals)]
        d9 == logAction(d8, shop, "invoice", invoiceId, "UPDATE")
        headerErr == IF CustomerFk(d, decomposed.invoice.customer_id)
                     THEN None ELSE "Constraint"
    IN RunBody(d, <<d, d2, d3, d4, d5, d6, d7, d8, d9>>,
               <<IF existing THEN None ELSE "NotFound", headerErr,
                 None, None, None, None, None, None, None>>,
               failAt, assembleInvoice(d9, shop, invoiceId))

updateInvoice(d, shop, invoiceId, aggregatePayload, failAt) ==
    transaction(d, updateInvoiceBody(d, shop, invoiceId, aggregatePayload, failAt))

\* SELECT i.*, it.grand_total ... WHERE i.shop_id = ? AND i.deleted_at IS NULL
listInvoices(d, shop) ==
    {[id |-> i, invoice_number |-> d.invoices[i].invoice_number,
      status |-> d.invoices[i].status,
      grand_total |-> IF i \in DOMAIN d.totals THEN d.totals[i].grandTotal ELSE 0] :
        i \in {j \in DOMAIN d.invoices :
                  d.invoices[j].shop_id = shop /\ d.invoices[j].deleted_at = 0}}

deleteInvoice_hard(d, shop, invoiceId, now, failAt) ==
    LET hit == /\ invoiceId \in DOMAIN d.invoices
               /\ d.invoices[invoiceId].shop_id = shop
               /\ d.invoices[invoiceId].deleted_at = 0
        d1 == IF hit THEN [d EXCEPT !.invoices = Drop(@, invoiceId)] ELSE d
        d2 == logAction(d1, shop, "invoice", invoiceId, "DELETE")
    IN RunBody(d, <<d1, d2>>, <<IF hit THEN None ELSE "NotFound", None>>,
               failAt, NullAgg)

deleteInvoice_noGuard(d, shop, invoiceId, now, failAt) ==
    LET hit == /\ invoiceId \in DOMAIN d.invoices
               /\ d.invoices[invoiceId].shop_id = shop
        d1 == IF hit THEN [d EXCEPT !.invoices[invoiceId].deleted_at = now] ELSE d
        d2 == logAction(d1, shop, "invoice", invoiceId, "DELETE")
    IN RunBody(d, <<d1, d2>>, <<IF hit THEN None ELSE "NotFound", None>>,
               failAt, NullAgg)

\* UPDATE invoices SET deleted_at = ? WHERE id = ? AND shop_id = ? AND deleted_at IS NULL
\* runs outside any transaction; logAction follows it; `now` is the clock reading
deleteInvoice(d, shop, invoiceId, now, failAt) ==
    LET hit == /\ invoiceId \in DOMAIN d.invoices
               /\ d.invoices[invoiceId].shop_id = shop
               /\ d.invoices[invoiceId].deleted_at = 0
        d1 == IF hit THEN [d EXCEPT !.invoices[invoiceId].deleted_at = now] ELSE d
        d2 == logAction(d1, shop, "invoice", invoiceId, "DELETE")
    IN RunBody(d, <<d1, d2>>, <<IF hit THEN None ELSE "NotFound", None>>,
               failAt, NullAgg)

(***************************************************************************)
(* utils/calculator.js recalculateBalance and the party services           *)
(***************************************************************************)
\* SUM(it.grand_total_paisa) FROM invoices i JOIN invoice_totals it
\*   WHERE i.customer_id = ? AND i.deleted_at IS NULL
\* SUM(amount_paisa) FROM payments WHERE party_id = ? AND party_type = ?
recalculateBalance(d, partyId, partyType) ==
    LET invs == {i \in DOMAIN d.invoices :
                    /\ d.invoices[i].customer_id = partyId
                    /\ d.invoices[i].deleted_at = 0
                    /\ i \in DOMAIN d.totals}
        pays == {p \in DOMAIN d.payments :
                    /\ d.payments[p].party_id = partyId
                    /\ d.payments[p].party_type = partyType}
        total_invoiced == SumFn([i \in invs |-> d.totals[i].grandTotal], invs)
        total_paid == SumFn([p \in pays |-> d.payments[p].amount_paisa], pays)
    IN total_invoiced - total_paid

\* UPDATE customers SET balance_paisa = ?, balance = ? WHERE id = ? AND shop_id = ?
updateCustomerBalance(d, shop, customerId) ==
    LET balancePaisa == recalculateBalance(d, customerId, "CUSTOMER")
    IN IF customerId \in DOMAIN d.customers /\ d.customers[customerId].shop_id = shop
       THEN [d EXCEPT !.customers[customerId].balance_paisa = balancePaisa]
       ELSE d

\* UPDATE vendors SET balance_paisa = ?, balance = ? WHERE id = ? AND shop_id = ?
updateVendorBalance(d, shop, vendorId) ==
    LET balancePaisa == recalculateBalance(d, vendorId, "VENDOR")
    IN IF vendorId \in DOMAIN d.vendors /\ d.vendors[vendorId].shop_id = shop
       THEN [d EXCEPT !.vendors[vendorId].balance_paisa = balancePaisa]
       ELSE d

UpdatePartyBalance_stale(d, shop, partyType, partyId) == d

UpdatePartyBalance(d, shop, partyType, partyId) ==
    IF partyType = "CUSTOMER" THEN updateCustomerBalance(d, shop, partyId)
    ELSE IF partyType = "VENDOR" THEN updateVendorBalance(d, shop, partyId)
    ELSE d

(***************************************************************************)
(* services/paymentService.js                                              *)
(* Payment data is [partyType, partyId, amount, allocations]; an           *)
(* allocation is [invoiceId, amount]; amounts are decimals.                *)
(***************************************************************************)
Hundredths(x) == x[1] * 100 + x[2]

RECURSIVE AllocSum(_, _, _)
AllocSum(rows, k, invoiceId) ==
    IF k > Len(rows) THEN 0
    ELSE (IF rows[k].invoice_id = invoiceId THEN Hundredths(rows[k].amount) ELSE 0)
         + AllocSum(rows, k + 1, invoiceId)

\* SELECT COALESCE(SUM(amount), 0) FROM payment_allocations WHERE invoice_id = ?
\* the sum of the decimal amounts, in hundredths
AllocatedTotal(d, invoiceId) ==
    SumFn([p \in DOMAIN d.allocations |-> AllocSum(d.allocations[p], 1, invoiceId)],
          DOMAIN d.allocations)

StatusFor_strict(totalPaidPaisa, grandTotalPaisa) ==
    IF totalPaidPaisa > grandTotalPaisa THEN "PAID"
    ELSE IF totalPaidPaisa > 0 THEN "PARTIAL"
    ELSE "UNPAID"

StatusFor(totalPaidPaisa, grandTotalPaisa) ==
    IF totalPaidPaisa >= grandTotalPaisa THEN "PAID"
    ELSE IF totalPaidPaisa > 0 THEN "PARTIAL"
    ELSE "UNPAID"

updateInvoiceStatus(d, shop, invoiceId) ==
    IF /\ invoiceId \in DOMAIN d.invoices
       /\ d.invoices[invoiceId].shop_id = shop
       /\ invoiceId \in DOMAIN d.totals
    THEN LET totalPaidPaisa == MathRound(AllocatedTotal(d, invoiceId) * 100, 100)
             grandTotalPaisa == d.totals[invoiceId].grandTotal
         IN [d EXCEPT !.invoices[invoiceId].status =
                          StatusFor(totalPaidPaisa, grandTotalPaisa)]
    ELSE d

RECURSIVE UpdateStatuses(_, _, _, _)
UpdateStatuses(d, shop, ids, k) ==
    IF k > Len(ids) THEN d
    ELSE UpdateStatuses(updateInvoiceStatus(d, shop, ids[k]), shop, ids, k + 1)

NullPayment == [id |-> NoId]

getPayment(d, shop, paymentId) ==
    IF paymentId \in DOMAIN d.payments /\ d.payments[paymentId].shop_id = shop
    THEN [id |-> paymentId, payment |-> d.payments[paymentId],
          allocations |-> IF paymentId \in DOMAIN d.allocations
                          THEN d.allocations[paymentId] ELSE <<>>]
    ELSE NullPayment

createPaymentBody(d, shop, data, failAt) ==
    LET paymentId == NewPaymentId(d, shop)
        num == generatePaymentNumber(d, shop)
        amountPaisa == ToPaisa(data.amount)
        n == Len(data.allocations)
        d1 == num.db
        d2 == [d1 EXCEPT !.payments = Put(@, paymentId,
                  [shop_id |-> shop, transaction_number |-> num.value,
                   party_type |-> data.partyType, party_id |-> data.partyId,
                   amount_paisa |-> amountPaisa])]
        d3 == IF n = 0 THEN d2
              ELSE [d2 EXCEPT !.allocations = Put(@, paymentId,
                       [k \in 1..n |-> [invoice_id |-> data.allocations[k].invoiceId,
                                        amount |-> data.allocations[k].amount]])]
        d4 == UpdateStatuses(d3, shop, [k \in 1..n |-> data.allocations[k].invoiceId], 1)
        d5 == UpdatePartyBalance(d4, shop, data.partyType, data.partyId)
        d6 == logAction(d5, shop, "payment", paymentId, "CREATE")
        payErr ==
            IF /\ paymentId \notin DOMAIN d1.payments
               /\ \A p \in DOMAIN d1.payments :
                     ~(d1.payments[p].shop_id = shop
                       /\ d1.payments[p].transaction_number = num.value)
            THEN None ELSE "Constraint"
        \* FOREIGN KEY (invoice_id) REFERENCES invoices(id)
        allocErr == IF \A k \in 1..n : data.allocations[k].invoiceId \in DOMAIN d2.invoices
                    THEN None ELSE "Constraint"
    IN RunBody(d, <<d1, d2, d3, d4, d5, d6>>,
               <<num.err, payErr, allocErr, None, None, None>>,
               failAt, getPayment(d6, shop, paymentId))

createPayment(d, shop, data, failAt) ==
    transaction(d, createPaymentBody(d, shop, data, failAt))

deletePaymentBody_unscoped(d, shop, paymentId, failAt) ==
    LET found == paymentId \in DOMAIN d.payments
        payment == d.payments[paymentId]
        allocations == IF paymentId \in DOMAIN d.allocations
                       THEN d.allocations[paymentId] ELSE <<>>
        d2 == [d EXCEPT !.allocations = Drop(@, paymentId)]
        d3 == [d2 EXCEPT !.payments = Drop(@, paymentId)]
        d4 == UpdateStatuses(d3, shop,
                  [k \in 1..Len(allocations) |-> allocations[k].invoice_id], 1)
        d5 == UpdatePartyBalance(d4, shop, payment.party_type, payment.party_id)
        d6 == logAction(d5, shop, "payment", paymentId, "DELETE")
    IN IF ~found
       THEN [db |-> d, err |-> "NotFound", value |-> NullPayment]
       ELSE RunBody(d, <<d, d2, d3, d4, d5, d6>>,
                    <<None, None, None, None, None, None>>, failAt, NullPayment)

deletePaymentBody(d, shop, paymentId, failAt) ==
    LET found == paymentId \in DOMAIN d.payments /\ d.payments[paymentId].shop_id = shop
        payment == d.payments[paymentId]
        allocations == IF paymentId \in DOMAIN d.allocations
                       THEN d.allocations[paymentId] ELSE <<>>
        d2 == [d EXCEPT !.allocations = Drop(@, paymentId)]
        d3 == [d2 EXCEPT !.payments = Drop(@, paymentId)]
        d4 == UpdateStatuses(d3, shop,
                  [k \in 1..Len(allocations) |-> allocations[k].invoice_id], 1)
        d5 == UpdatePartyBalance(d4, shop, payment.party_type, payment.party_id)
        d6 == logAction(d5, shop, "payment", paymentId, "DELETE")
    IN IF ~found
       THEN [db |-> d, err |-> "NotFound", value |-> NullPayment]
       ELSE RunBody(d, <<d, d2, d3, d4, d5, d6>>,
                    <<None, None, None, None, None, None>>, failAt, NullPayment)

deletePayment(d, shop, paymentId, failAt) ==
    transaction(d, deletePaymentBody(d, shop, paymentId, failAt))

(***************************************************************************)
(* routes/home.js: the in-memory snapshot cache, one entry per shop.  The  *)
(* cache is the set of shops that have an entry; it is no part of the      *)
(* database and no transaction rolls it back.                              *)
(***************************************************************************)
bustHomeCache(c, shopId) == c \ {shopId}

(***************************************************************************)
(* Inputs.  An invoice payload names a customer of the calling shop.       *)
(***************************************************************************)
Item(q, r, t) == [quantity |-> q, rate |-> r, taxRate |-> t]

ItemLists == {<<Item(1, <<100, 0>>, 0)>>, <<Item(2, <<33, 33>>, 3)>>}

Statuses == {Null, "PAID"}

Payloads(shop, statuses, lists) ==
    [customerId : {c \in Customers : ShopOfParty(c) = shop}, name : {"n1"},
     status : statuses, items : lists]

\* totals a client may send along in the payload
ClientTotals ==
    {[subtotal |-> <<1, 0>>, taxTotal |-> <<0, 0>>, cgst |-> <<0, 0>>,
      sgst |-> <<0, 0>>, igst |-> <<0, 0>>, roundOff |-> <<0, 0>>,
      grandTotal |-> <<1, 0>>]}

ClientPayloads(shop, statuses, lists) ==
    [customerId : {c \in Customers : ShopOfParty(c) = shop}, name : {"n1"},
     status : statuses, items : lists, totals : ClientTotals]

PayAmounts == {<<50, 0>>, <<100, 0>>}

AllocsOn(ids, amounts) == [invoiceId : ids, amount : amounts]

AllocLists(ids, amounts) ==
    UNION {[1..n -> AllocsOn(ids, amounts)] : n \in 0..MaxAllocs}

PayData(parties, amounts, ids, allocAmounts) ==
    {[partyType |-> pt[1], partyId |-> pt[2], amount |-> a, allocations |-> al] :
        pt \in parties, a \in amounts, al \in AllocLists(ids, allocAmounts)}

CalcItems == {Item(q, r, t) : q \in {1, 2}, r \in {<<33, 33>>, <<33, 34>>, <<500, 0>>, <<0, 1>>},
                              t \in {0, 3, 5, 100}}

PaymentsDrawn(d) ==
    SumFn([s \in Shops |-> IF <<s, "payment_seq">> \in DOMAIN d.sequences
                           THEN d.sequences[<<s, "payment_seq">>] - 1 ELSE 0], Shops)

\* The record of a call: what was called, by which shop, on which key (an id or
\* a request token), the error raised and the value returned; `replay` tells that
\* createInvoice answered from the idempotency mapping.
Call(op, shop, key, r) ==
    [op |-> op, shop |-> shop, key |-> key, err |-> r.err, value |-> r.value,
     replay |-> FALSE]

(***************************************************************************)
(* Initial state: two provisioned shops, each with its counters seeded and *)
(* one customer; no invoice, no payment.                                   *)
(***************************************************************************)
Callers == {"p", "q"}

\* no createInvoice call in flight
IdleCallers == [c \in Callers |-> [pc |-> "idle", existing |-> NoId, seen |-> InitialDb]]

Init ==
    /\ db = InitialDb
    /\ cache = {}
    /\ solo = InitialDb
    /\ last = [op |-> "init", shop |-> Null, key |-> Null, err |-> None,
               value |-> NullAgg, replay |-> FALSE]
    /\ everAllocated = {}
    /\ calcItems = <<>>
    /\ calcOut = calculateInvoiceTotals(<<>>)
    /\ draws = <<>>
    /\ race = IdleCallers

Frame == UNCHANGED <<calcItems, calcOut, draws, race>>

(***************************************************************************)
(* Actions: one per handler.  `solo` receives the calls of the observed    *)
(* tenant only.                                                            *)
(***************************************************************************)
CreateInvoiceUpTo(max, shop, payload, requestId, failAt) ==
    /\ \/ Cardinality(DOMAIN db.invoices) < max
       \/ requestId \in DOMAIN db.idem
    /\ LET r == createInvoice(db, shop, payload, requestId, failAt)
       IN /\ db' = r.db
          /\ last' = [Call("createInvoice", shop, requestId, r) EXCEPT !.replay =
                          requestId # Null /\ IdemLookup(db, requestId, shop) # NoId]
    /\ solo' = IF shop = Observed
               THEN createInvoice(solo, shop, payload, requestId, failAt).db
               ELSE solo
    /\ UNCHANGED <<cache, everAllocated>>
    /\ Frame

CreateInvoice(shop, payload, requestId, failAt) ==
    CreateInvoiceUpTo(MaxInvoices, shop, payload, requestId, failAt)

UpdateInvoice(shop, invoiceId, payload, failAt) ==
    /\ LET r == updateInvoice(db, shop, invoiceId, payload, failAt)
       IN /\ db' = r.db
          /\ last' = Call("updateInvoice", shop, invoiceId, r)
    /\ solo' = IF shop = Observed
               THEN updateInvoice(solo, shop, invoiceId, payload, failAt).db
               ELSE solo
    /\ UNCHANGED <<cache, everAllocated>>
    /\ Frame

DeleteInvoice(shop, invoiceId, now, failAt) ==
    /\ LET r == deleteInvoice(db, shop, invoiceId, now, failAt)
       IN /\ db' = r.db
          /\ last' = Call("deleteInvoice", shop, invoiceId, r)
    /\ solo' = IF shop = Observed
               THEN deleteInvoice(solo, shop, invoiceId, now, failAt).db
               ELSE solo
    /\ UNCHANGED <<cache, everAllocated>>
    /\ Frame

AssembleInvoice(shop, invoiceId) ==
    /\ last' = Call("assembleInvoice", shop, invoiceId,
                     [err |-> None, value |-> assembleInvoice(db, shop, invoiceId)])
    /\ UNCHANGED <<db, cache, solo, everAllocated>>
    /\ Frame

ListInvoices(shop) ==
    /\ last' = Call("listInvoices", shop, Null,
                     [err |-> None, value |-> listInvoices(db, shop)])
    /\ UNCHANGED <<db, cache, solo, everAllocated>>
    /\ Frame

CreatePayment(shop, data, failAt) ==
    /\ PaymentsDrawn(db) < MaxPayments
    /\ LET r == createPayment(db, shop, data, failAt)
       IN /\ db' = r.db
          /\ last' = Call("createPayment", shop, r.value.id, r)
          /\ cache' = IF r.err = None THEN bustHomeCache(cache, shop) ELSE cache
          /\ everAllocated' =
                IF r.err = None
                THEN everAllocated \cup
                         {data.allocations[k].invoiceId : k \in 1..Len(data.allocations)}
                ELSE everAllocated
    /\ solo' = IF shop = Observed THEN createPayment(solo, shop, data, failAt).db ELSE solo
    /\ Frame

DeletePayment(shop, paymentId, failAt) ==
    /\ LET r == deletePayment(db, shop, paymentId, failAt)
       IN /\ db' = r.db
          /\ last' = Call("deletePayment", shop, paymentId, r)
          /\ cache' = IF r.err = None THEN bustHomeCache(cache, shop) ELSE cache
    /\ solo' = IF shop = Observed THEN deletePayment(solo, shop, paymentId, failAt).db ELSE solo
    /\ UNCHANGED everAllocated
    /\ Frame

\* POST /api/invoices/:id/photos
AddInvoicePhoto(shop, invoiceId) ==
    /\ Cardinality(DOMAIN db.photos) < MaxPhotos
    /\ LET r == addInvoicePhoto(db, shop, invoiceId)
       IN /\ db' = r.db
          /\ last' = Call("addInvoicePhoto", shop, invoiceId, r)
    /\ solo' = IF shop = Observed THEN addInvoicePhoto(solo, shop, invoiceId).db ELSE solo
    /\ UNCHANGED <<cache, everAllocated>>
    /\ Frame

\* GET /api/home/snapshot: serves the shop's entry when it has one that has not
\* expired, else generates a snapshot; either way the shop has an entry afterwards
GetHomeSnapshot(shop) ==
    /\ cache' = cache \cup {shop}
    /\ last' = Call("getHomeSnapshot", shop, Null, [err |-> None, value |-> NullAgg])
    /\ UNCHANGED <<db, solo, everAllocated>>
    /\ Frame

\* sequenceService.js getNextSequence called on its own (autocommit): one atomic
\* UPDATE ... RETURNING; `draws` is the history of the values handed out
GetNextSequence(shop, key) ==
    /\ Len(draws) < MaxDraws
    /\ LET r == getNextSequence(db, shop, key)
       IN /\ db' = r.db
          /\ draws' = Append(draws, [shop |-> shop, key |-> key, err |-> r.err,
                                     value |-> r.value])
    /\ UNCHANGED <<cache, last, solo, everAllocated, calcItems, calcOut, race>>

\* calculateInvoiceTotals on a list of line items, grown one item at a time
CalculateInvoiceTotals(item) ==
    /\ Len(calcItems) < MaxItems
    /\ calcItems' = Append(calcItems, item)
    /\ calcOut' = calculateInvoiceTotals(calcItems')
    /\ UNCHANGED <<db, cache, last, solo, everAllocated, draws, race>>

(***************************************************************************)
(* Spec: the ledger of one shop ("A") and its customer, every handler of   *)
(* the invoice and payment services, with failures injected after the      *)
(* line-items insert (create, update),                                     *)
(* at the audit insert (delete) and between the allocation, status and     *)
(* balance writes (payments).                                              *)
(***************************************************************************)
LedgerShops == {"A"}

LedgerParties == {<<"CUSTOMER", "cA">>}

Next ==
    \/ \E s \in LedgerShops, t \in Tokens \cup {Null}, f \in {0, 4} :
          \E p \in Payloads(s, Statuses, ItemLists) : CreateInvoice(s, p, t, f)
    \/ \E s \in LedgerShops, i \in DOMAIN db.invoices, f \in {0, 6} :
          \E p \in Payloads(s, Statuses, ItemLists) : UpdateInvoice(s, i, p, f)
    \/ \E s \in LedgerShops, i \in DOMAIN db.invoices, f \in {0, 1} :
          DeleteInvoice(s, i, 1, f)
    \/ \E s \in LedgerShops, i \in DOMAIN db.invoices : AssembleInvoice(s, i)
    \/ \E s \in LedgerShops : ListInvoices(s)
    \/ \E s \in LedgerShops, f \in {0, 3, 4} :
          \E data \in PayData(LedgerParties, {<<100, 0>>},
                              DOMAIN db.invoices \cup {NewInvoiceId(db, s)}, PayAmounts) :
             CreatePayment(s, data, f)
    \/ \E s \in LedgerShops, p \in DOMAIN db.payments, f \in {0, 3} :
          DeletePayment(s, p, f)

Spec == Init /\ [][Next]_vars

(***************************************************************************)
(* TenantSpec: two shops on one store, the invoice handlers.  Each shop    *)
(* calls every handler with its own credentials and may name any invoice   *)
(* of the store and any request token, also those of the other shop.       *)
(***************************************************************************)
TenantShops == Shops

TenantNext ==
    \/ \E s \in TenantShops, t \in Tokens \cup {Null}, f \in {0, 4} :
          \E p \in Payloads(s, Statuses, {<<Item(1, <<100, 0>>, 0)>>}) :
             CreateInvoice(s, p, t, f)
    \/ \E s \in TenantShops, i \in DOMAIN db.invoices, f \in {0, 6} :
          \E p \in Payloads(s, Statuses, {<<Item(2, <<33, 33>>, 3)>>}) :
             UpdateInvoice(s, i, p, f)
    \/ \E s \in TenantShops, i \in DOMAIN db.invoices, f \in {0, 1} :
          DeleteInvoice(s, i, 1, f)
    \/ \E s \in TenantShops, i \in DOMAIN db.invoices : AssembleInvoice(s, i)
    \/ \E s \in TenantShops : ListInvoices(s)

TenantSpec == Init /\ [][TenantNext]_vars

(***************************************************************************)
(* TenantLedgerSpec: two shops on one store, the ledger.  Each shop        *)
(* creates and deletes invoices and payments with its own credentials; a   *)
(* payment may name any customer or vendor of the store as its party and   *)
(* any payment id, also one not in the store, may be named in a delete.    *)
(* The other shop may allocate to any invoice of the store; the observed   *)
(* shop allocates to its own invoices, so that each of its calls names     *)
(* rows that exist with and without the other shop's calls.                *)
(***************************************************************************)
Allocatable(d, shop) ==
    {i \in DOMAIN d.invoices : shop = Observed => d.invoices[i].shop_id = shop}

TenantParties == {<<"CUSTOMER", "cA">>, <<"CUSTOMER", "cB">>, <<"VENDOR", "vA">>}

TenantLedgerNext ==
    \/ \E s \in TenantShops, t \in Tokens :
          \E p \in Payloads(s, {Null}, {<<Item(1, <<100, 0>>, 0)>>}) :
             CreateInvoice(s, p, t, 0)
    \/ \E s \in TenantShops, i \in DOMAIN db.invoices : DeleteInvoice(s, i, 1, 0)
    \/ \E s \in TenantShops :
          \E data \in PayData(TenantParties, {<<100, 0>>}, Allocatable(db, s),
                              {<<50, 0>>}) :
             CreatePayment(s, data, 0)
    \/ \E s \in TenantShops :
          \E p \in DOMAIN db.payments \cup {NewPaymentId(db, s)} :
             DeletePayment(s, p, 0)

TenantLedgerSpec == Init /\ [][TenantLedgerNext]_vars

(***************************************************************************)
(* HomeSpec: two shops, the home snapshot route with its cache, whose      *)
(* entries expire, and the invoice and payment handlers.                   *)
(***************************************************************************)
\* the entry of a shop outlives CACHE_TTL_MS: the next request does not serve it
ExpireHomeCache(shop) ==
    /\ shop \in cache
    /\ cache' = cache \ {shop}
    /\ UNCHANGED <<db, last, solo, everAllocated>>
    /\ Frame

HomeItems == {<<Item(1, <<100, 0>>, 0)>>}

HomeNext ==
    \/ \E s \in Shops : GetHomeSnapshot(s)
    \/ \E s \in Shops : ExpireHomeCache(s)
    \/ \E s \in Shops : \E p \in Payloads(s, {Null}, HomeItems) :
          CreateInvoice(s, p, Null, 0)
    \/ \E s \in Shops, i \in DOMAIN db.invoices :
          \E p \in Payloads(s, {"PAID"}, HomeItems) : UpdateInvoice(s, i, p, 0)
    \/ \E s \in Shops, i \in DOMAIN db.invoices : DeleteInvoice(s, i, 1, 0)
    \/ \E s \in Shops, f \in {0, 4} :
          \E data \in PayData({<<"CUSTOMER", "c" \o s>>}, {<<100, 0>>}, {}, {}) :
             CreatePayment(s, data, f)
    \/ \E s \in Shops, p \in DOMAIN db.payments, f \in {0, 3} :
          DeletePayment(s, p, f)

HomeSpec == Init /\ [][HomeNext]_vars

(***************************************************************************)
(* ScenarioSpec: one shop and its customer; one invoice of one item        *)
(* (quantity 2, rate 500.00, tax 3%), payments of 1030.00 or 500.00 that   *)
(* allocate 1030.00 or 500.00 to the invoice, and the deletions.           *)
(***************************************************************************)
ScenarioItems == <<Item(2, <<500, 0>>, 3)>>

ScenarioAmounts == {<<1030, 0>>, <<500, 0>>}

ScenarioNext ==
    \/ \E s \in LedgerShops : \E p \in Payloads(s, {Null}, {ScenarioItems}) :
          CreateInvoice(s, p, Null, 0)
    \/ \E s \in LedgerShops :
          \E data \in PayData(LedgerParties, ScenarioAmounts, DOMAIN db.invoices,
                              ScenarioAmounts) :
             CreatePayment(s, data, 0)
    \/ \E s \in LedgerShops, p \in DOMAIN db.payments : DeletePayment(s, p, 0)
    \/ \E s \in LedgerShops, i \in DOMAIN db.invoices : DeleteInvoice(s, i, 1, 0)

ScenarioSpec == Init /\ [][ScenarioNext]_vars

(***************************************************************************)
(* AuthoritySpec: one shop; the invoice handlers called with payloads that *)
(* carry totals of the client's own, with failures injected after the      *)
(* line-items insert.                                                      *)
(***************************************************************************)
AuthorityLists ==
    ItemLists \cup {<<Item(1, <<33, 33>>, 5), Item(2, <<0, 1>>, 0)>>}

AuthorityNext ==
    \/ \E s \in LedgerShops, t \in Tokens \cup {Null}, f \in {0, 4} :
          \E p \in ClientPayloads(s, Statuses, AuthorityLists) :
             CreateInvoice(s, p, t, f)
    \/ \E s \in LedgerShops, i \in DOMAIN db.invoices, f \in {0, 6} :
          \E p \in ClientPayloads(s, Statuses, AuthorityLists) :
             UpdateInvoice(s, i, p, f)
    \/ \E s \in LedgerShops, i \in DOMAIN db.invoices : DeleteInvoice(s, i, 1, 0)
    \/ \E s \in LedgerShops, i \in DOMAIN db.invoices : AssembleInvoice(s, i)

AuthoritySpec == Init /\ [][AuthorityNext]_vars

(***************************************************************************)
(* DeleteSpec: two shops; deleteInvoice at different times on an invoice   *)
(* of the caller, of the other shop, deleted already, or not in the store. *)
(***************************************************************************)
Clock == {1, 2}

DeleteNext ==
    \/ \E s \in Shops : \E p \in Payloads(s, Statuses, {<<Item(1, <<100, 0>>, 0)>>}) :
          CreateInvoice(s, p, Null, 0)
    \/ \E s \in Shops, now \in Clock, f \in {0, 1} :
          \E i \in DOMAIN db.invoices \cup {NewInvoiceId(db, s)} :
             DeleteInvoice(s, i, now, f)
    \/ \E s \in Shops, i \in DOMAIN db.invoices : AssembleInvoice(s, i)
    \/ \E s \in Shops : ListInvoices(s)

DeleteSpec == Init /\ [][DeleteNext]_vars

(***************************************************************************)
(* UnseededSpec: a provisioned shop and a shop whose provisioning stopped   *)
(* after any number of the counter inserts; getNextSequence, createInvoice *)
(* and createPayment.                                                      *)
(***************************************************************************)
UnseededInit ==
    /\ \E n \in {f \in [Shops -> 0..Len(SeqOrder)] : f["A"] = Len(SeqOrder)} :
          /\ db = [InitialDb EXCEPT !.sequences = SequencesSeeded(n)]
          /\ solo = db
    /\ cache = {}
    /\ last = [op |-> "init", shop |-> Null, key |-> Null, err |-> None,
               value |-> NullAgg, replay |-> FALSE]
    /\ everAllocated = {}
    /\ calcItems = <<>>
    /\ calcOut = calculateInvoiceTotals(<<>>)
    /\ draws = <<>>
    /\ race = IdleCallers

UnseededNext ==
    \/ \E s \in Shops, k \in {"invoice_seq", "payment_seq"} : GetNextSequence(s, k)
    \/ \E s \in Shops :
          \E p \in Payloads(s, {Null}, {<<Item(1, <<100, 0>>, 0)>>}) :
             CreateInvoice(s, p, Null, 0)
    \/ \E s \in Shops :
          \E data \in PayData({<<"CUSTOMER", "cA">>, <<"CUSTOMER", "cB">>},
                              {<<100, 0>>}, {}, {}) :
             CreatePayment(s, data, 0)

UnseededSpec == UnseededInit /\ [][UnseededNext]_vars

(***************************************************************************)
(* SeqSpec: callers of getNextSequence on every shop and key, in every     *)
(* order.  The driver is synchronous and the statement is one UPDATE, so   *)
(* an interleaving of callers is an order of their statements.  Each draw  *)
(* commits on its own; resetSequence (sequenceService.js 70-74) has no     *)
(* caller in the services or routes and is no action.                      *)
(***************************************************************************)
SeqNext == \E s \in Shops, k \in SeqKeys : GetNextSequence(s, k)

SeqSpec == Init /\ [][SeqNext]_vars

(***************************************************************************)
(* CalcSpec: calculateInvoiceTotals over every list of at most MaxItems    *)
(* items of CalcItems.                                                     *)
(***************************************************************************)
CalcNext == \E item \in CalcItems : CalculateInvoiceTotals(item)

CalcSpec == Init /\ [][CalcNext]_vars

(***************************************************************************)
(* Properties of the ledger (Spec).                                        *)
(***************************************************************************)
\* The ledger of a customer of a shop, from the rows: the grand totals of the
\* customer's non-deleted invoices minus the amounts of the customer's payments
LedgerBalance(d, shop, customerId) ==
    LET invs == {i \in DOMAIN d.invoices :
                    /\ d.invoices[i].shop_id = shop
                    /\ d.invoices[i].customer_id = customerId
                    /\ d.invoices[i].deleted_at = 0
                    /\ i \in DOMAIN d.totals}
        pays == {p \in DOMAIN d.payments :
                    /\ d.payments[p].shop_id = shop
                    /\ d.payments[p].party_type = "CUSTOMER"
                    /\ d.payments[p].party_id = customerId}
    IN SumFn([i \in invs |-> d.totals[i].grandTotal], invs)
       - SumFn([p \in pays |-> d.payments[p].amount_paisa], pays)

DerivedStatus(d, invoiceId) ==
    LET sum == MathRound(AllocatedTotal(d, invoiceId) * 100, 100)
        grand == d.totals[invoiceId].grandTotal
    IN IF sum >= grand THEN "PAID" ELSE IF sum > 0 THEN "PARTIAL" ELSE "UNPAID"

PersistedOnce(d, invoiceId) ==
    /\ invoiceId \in DOMAIN d.invoices
    /\ invoiceId \in DOMAIN d.snapshot
    /\ invoiceId \in DOMAIN d.items
    /\ invoiceId \in DOMAIN d.totals

C4_InvoiceWritesAtomic ==
    [][(last'.op \in {"createInvoice", "updateInvoice"} /\ last'.err # None)
       => (/\ db' = db
           /\ last'.op = "createInvoice" =>
                 LET id == NewInvoiceId(db, last'.shop)
                 IN /\ id \notin DOMAIN db'.invoices \cup DOMAIN db'.snapshot
                    /\ id \notin DOMAIN db'.items \cup DOMAIN db'.totals
                    /\ \A t \in DOMAIN db'.idem : db'.idem[t].entity_id # id)]_vars

C4_Witness ==
    /\ last.op = "updateInvoice" /\ last.err = "Injected"
    /\ last.key \in DOMAIN db.invoices

\* the effects of a committed payment write on the shop's ledger: the status of
\* every invoice of the shop named in `rows` is the derived one and the balance of
\* the party is the one recalculated from the rows
PaymentEffectsApplied(d, shop, partyId, rows) ==
    /\ \A k \in 1..Len(rows) :
          LET i == rows[k].invoice_id
          IN (/\ i \in DOMAIN d.invoices /\ d.invoices[i].shop_id = shop
              /\ i \in DOMAIN d.totals)
             => d.invoices[i].status = DerivedStatus(d, i)
    /\ (partyId \in DOMAIN d.customers /\ d.customers[partyId].shop_id = shop)
          => d.customers[partyId].balance_paisa = LedgerBalance(d, shop, partyId)

\* C5: createPayment and deletePayment are all-or-nothing over the payment row,
\* its allocation rows, the status of every affected invoice and the party
\* balance: a call that raises an error leaves the store unchanged; a call that
\* returns has written (or removed) the payment row and its allocation rows, set
\* every affected invoice's status to the derived one and set the party balance
\* to the one recalculated from the rows.
C5_PaymentWritesAtomic ==
    [][/\ (last'.op \in {"createPayment", "deletePayment"} /\ last'.err # None)
          => db' = db
       /\ (last'.op = "createPayment" /\ last'.err = None)
          => LET p == last'.key
             IN /\ p \notin DOMAIN db.payments
                /\ p \in DOMAIN db'.payments
                /\ last'.value.allocations # <<>> => p \in DOMAIN db'.allocations
                /\ PaymentEffectsApplied(db', last'.shop, db'.payments[p].party_id,
                                         last'.value.allocations)
       /\ (last'.op = "deletePayment" /\ last'.err = None)
          => LET p == last'.key
             IN /\ p \in DOMAIN db.payments
                /\ p \notin DOMAIN db'.payments \cup DOMAIN db'.allocations
                /\ PaymentEffectsApplied(db', last'.shop, db.payments[p].party_id,
                                         IF p \in DOMAIN db.allocations
                                         THEN db.allocations[p] ELSE <<>>)]_vars

C5_Witness ==
    /\ last.op = "createPayment" /\ last.err = "Injected"
    /\ \E i \in DOMAIN db.invoices : db.invoices[i].status = "UNPAID"

\* C13: in every state between operations each invoice header has its one totals
\* row and its one customer-snapshot row, or neither (each table is keyed by the
\* invoice id, so there is at most one of either); no create, update, delete or
\* failed call leaves one of the two without the other.
C13_TotalsWithSnapshot ==
    \A i \in DOMAIN db.invoices :
        (i \in DOMAIN db.totals) <=> (i \in DOMAIN db.snapshot)

C13_Witness ==
    /\ last.op = "createInvoice" /\ last.err = "Injected"
    /\ db.invoices = EmptyFn /\ db.snapshot = EmptyFn /\ db.totals = EmptyFn
    /\ db.sequences[<<"A", "invoice_seq">>] = 1

C15_DeletedStaysHidden ==
    [][\A i \in DOMAIN db.invoices :
          db.invoices[i].deleted_at # 0
          => /\ i \in DOMAIN db'.invoices /\ db'.invoices[i].deleted_at # 0
             /\ (last'.op = "assembleInvoice" /\ last'.key = i)
                   => (last'.err = None /\ last'.value = NullAgg)
             /\ last'.op = "listInvoices"
                   => \A r \in last'.value : r.id # i
             /\ (last'.op = "updateInvoice" /\ last'.key = i)
                   => (last'.err = "NotFound" /\ db' = db)]_vars

C15_Witness ==
    /\ last.op = "listInvoices" /\ last.value = {}
    /\ \E i \in DOMAIN db.invoices :
          /\ db.invoices[i].deleted_at # 0
          /\ db.invoices[i].shop_id = last.shop

(***************************************************************************)
(* Deleting what is not there (DeleteSpec).                                *)
(***************************************************************************)
\* C16: deleteInvoice on an invoice that is soft-deleted already, is not in the
\* store or belongs to another shop raises the not-found error and leaves the
\* store as it was: the time of the first soft delete is not overwritten and no
\* audit event is recorded.
C16_DeleteMissLeavesStore ==
    [][(/\ last'.op = "deleteInvoice"
        /\ ~(/\ last'.key \in DOMAIN db.invoices
             /\ db.invoices[last'.key].shop_id = last'.shop
             /\ db.invoices[last'.key].deleted_at = 0))
       => (last'.err = "NotFound" /\ db' = db)]_vars

C16_Witness ==
    /\ last.op = "deleteInvoice" /\ last.err = "NotFound"
    /\ last.key \in DOMAIN db.invoices
    /\ db.invoices[last.key].shop_id = last.shop
    /\ db.invoices[last.key].deleted_at = 1

(***************************************************************************)
(* The worked example (ScenarioSpec).                                      *)
(***************************************************************************)
\* the customer has no invoice and no payment in store d
NoLedger(d, customerId) ==
    /\ \A i \in DOMAIN d.invoices : d.invoices[i].customer_id # customerId
    /\ \A p \in DOMAIN d.payments : d.payments[p].party_id # customerId

ItemsOfRows(rows) ==
    [k \in 1..Len(rows) |->
        [quantity |-> rows[k].quantity, rate |-> rows[k].rate,
         taxRate |-> rows[k].tax_rate]]

\* the totals of an aggregate as the caller sees them, from a totals row
ShownTotals(t) ==
    [subtotal |-> toRupees(t.subtotal), taxTotal |-> toRupees(t.taxTotal),
     cgst |-> toRupees(t.cgst), sgst |-> toRupees(t.sgst),
     igst |-> toRupees(t.igst), roundOff |-> toRupees(t.roundOff),
     grandTotal |-> toRupees(t.grandTotal)]

InvoiceOps == {"assembleInvoice", "listInvoices", "updateInvoice", "deleteInvoice",
               "createInvoice"}

\* the invoices of the store that belong to another shop than `shop`
ForeignInvoices(d, shop) == {i \in DOMAIN d.invoices : d.invoices[i].shop_id # shop}

\* the header, snapshot, items and totals of an invoice
InvoiceRows(d, invoiceId) ==
    [header |-> d.invoices[invoiceId], snapshot |-> RowOf(d.snapshot, invoiceId),
     items |-> RowOf(d.items, invoiceId), totals |-> RowOf(d.totals, invoiceId)]

\* C6: for an invoice X of one shop, every assembleInvoice, listInvoices,
\* updateInvoice, deleteInvoice and token-replaying createInvoice made under
\* another shop returns null (assemble), omits X (list) or raises an error
\* (NotFound for update and delete, an error for the create); it never returns
\* X's data and never modifies X's header, snapshot, items or totals.
C6_TenantIsolation ==
    [][last'.op \in InvoiceOps =>
         \A x \in ForeignInvoices(db, last'.shop) :
            /\ x \in DOMAIN db'.invoices
            /\ InvoiceRows(db', x) = InvoiceRows(db, x)
            /\ last'.op = "listInvoices" => \A e \in last'.value : e.id # x
            /\ last'.op # "listInvoices" => last'.value.id # x
            /\ (last'.op = "assembleInvoice" /\ last'.key = x)
                  => last'.value = NullAgg
            /\ (last'.op \in {"updateInvoice", "deleteInvoice"} /\ last'.key = x)
                  => (last'.err = "NotFound" /\ db' = db)
            /\ (/\ last'.op = "createInvoice" /\ last'.key \in DOMAIN db.idem
                /\ db.idem[last'.key].entity_id = x)
                  => (last'.err # None /\ db' = db)]_vars

C6_Witness ==
    /\ last.op = "updateInvoice" /\ last.err = "NotFound"
    /\ last.key \in DOMAIN db.invoices
    /\ db.invoices[last.key].shop_id # last.shop
    /\ db.invoices[last.key].deleted_at = 0

\* C7: the observed shop's party balances and invoice statuses are the same with
\* the other shop's calls interleaved (db) as with the observed shop's calls
\* alone (solo), also when the other shop's createPayment names a customer or an
\* invoice of the observed shop.
C7_TenantNoninterference ==
    /\ \A c \in {x \in Customers : ShopOfParty(x) = Observed} :
          db.customers[c].balance_paisa = solo.customers[c].balance_paisa
    /\ \A i \in DOMAIN db.invoices \cap DOMAIN solo.invoices :
          db.invoices[i].shop_id = Observed
             => db.invoices[i].status = solo.invoices[i].status

\* C17: deletePayment for a payment id that is not in the store or belongs to
\* another shop raises the not-found error before any mutation: no payment row,
\* allocation row, invoice status or party balance changes, and no cache entry is
\* dropped.
C17_DeletePaymentMiss ==
    [][(/\ last'.op = "deletePayment"
        /\ ~(/\ last'.key \in DOMAIN db.payments
             /\ db.payments[last'.key].shop_id = last'.shop))
       => (last'.err = "NotFound" /\ db' = db /\ cache' = cache)]_vars

C17_Witness ==
    /\ last.op = "deletePayment" /\ last.err = "NotFound"
    /\ last.key \in DOMAIN db.payments
    /\ db.payments[last.key].shop_id # last.shop
    /\ last.key \in DOMAIN db.allocations

DrawsOn(shop, key) ==
    {k \in 1..Len(draws) : draws[k].shop = shop /\ draws[k].key = key}

\* C9: among the committed getNextSequence calls on one shop and key, in every
\* order of the callers, every call returns a value strictly greater than the value of
\* every call that completed before it (so no two return the same value), and
\* a counter is moved by the draws on its own shop and key only: it stands at
\* its seed plus the number of those draws.
C9_SequenceUniqueMonotone ==
    /\ \A i, j \in 1..Len(draws) :
          (i < j /\ draws[i].shop = draws[j].shop /\ draws[i].key = draws[j].key)
             => draws[i].value < draws[j].value
    /\ \A k \in 1..Len(draws) : draws[k].err = None
    /\ \A sk \in Shops \X SeqKeys :
          db.sequences[sk] = initializeShopSequences[sk]
                             + Cardinality(DrawsOn(sk[1], sk[2]))

C9_Witness ==
    \E i, j \in 1..Len(draws) :
       /\ i < j
       /\ draws[i].shop = draws[j].shop /\ draws[i].key = draws[j].key
       /\ \E k \in 1..Len(draws) : i < k /\ k < j /\ draws[k].shop # draws[i].shop

\* C18: when the counter row of a shop and key does not exist, getNextSequence
\* fails with an error and creates no counter row, and a createInvoice or a
\* createPayment of that shop fails with nothing persisted: no header, child,
\* idempotency or payment row.
C18_MissingCounter ==
    [][/\ (/\ draws' # draws /\ last' = last
           /\ <<draws'[Len(draws')].shop, draws'[Len(draws')].key>>
                 \notin DOMAIN db.sequences)
          => (draws'[Len(draws')].err = "SequenceNotFound" /\ db' = db)
       /\ (/\ draws' = draws /\ last'.op = "createInvoice"
           /\ <<last'.shop, "invoice_seq">> \notin DOMAIN db.sequences)
          => (last'.err = "SequenceNotFound" /\ db' = db)
       /\ (/\ draws' = draws /\ last'.op = "createPayment"
           /\ <<last'.shop, "payment_seq">> \notin DOMAIN db.sequences)
          => (last'.err = "SequenceNotFound" /\ db' = db)]_vars

C18_Witness ==
    /\ last.op = "createPayment" /\ last.err = "SequenceNotFound"
    /\ <<last.shop, "payment_seq">> \notin DOMAIN db.sequences
    /\ <<last.shop, "invoice_seq">> \in DOMAIN db.sequences
    /\ \E i \in DOMAIN db.invoices : db.invoices[i].shop_id = last.shop
    /\ \A p \in DOMAIN db.payments : db.payments[p].shop_id # last.shop

(***************************************************************************)
(* Properties of the money arithmetic (CalcSpec).                          *)
(***************************************************************************)
\* C10: for every list of line items (integer quantities, rates of at most two
\* decimals, tax rates from 0 to 100) calculateInvoiceTotals returns integers
\* with subtotal + taxTotal + roundOff = grandTotal exactly.
C10_TotalsAddUp ==
    /\ \A f \in DOMAIN calcOut : calcOut[f] \in Int
    /\ calcOut.subtotal + calcOut.taxTotal + calcOut.roundOff = calcOut.grandTotal

C10_Witness ==
    /\ Len(calcItems) >= 2
    /\ \E k \in 1..Len(calcItems) : calcItems[k].taxRate # 0
    /\ calcOut.taxTotal > 0
    /\ calcOut.roundOff < 0

(***************************************************************************)
(* RaceSpec: createInvoice calls of one shop that carry the same request   *)
(* token.  The driver is synchronous, so inside one server process a call  *)
(* runs from BEGIN to COMMIT with no other call in between; RaceSpec       *)
(* admits more: the schedules of calls that reach the store over several   *)
(* connections.  A call is two steps: the idempotency lookup that opens    *)
(* its transaction, then the writes up to COMMIT, which the store          *)
(* serialises.  What the store does to a writer whose lookup predates      *)
(* another call's commit is left open: it may refuse the write (SQLite in  *)
(* WAL mode raises SQLITE_BUSY) or let the statements run against the      *)
(* committed rows.                                                         *)
(***************************************************************************)
RaceShop == "A"

RaceToken == "T1"

\* BEGIN TRANSACTION and the lookup: a hit returns the stored invoice, a miss
\* leaves the call in the window before its first write
RaceLookup(c, shop, requestId) ==
    /\ race[c].pc = "idle"
    /\ LET existing == IdemLookup(db, requestId, shop)
       IN /\ race' = [race EXCEPT ![c] =
                         [pc |-> IF existing = NoId THEN "looked" ELSE "done",
                          existing |-> existing, seen |-> db]]
          /\ last' = IF existing = NoId THEN last
                     ELSE [Call("createInvoice", shop, requestId,
                                [err |-> None,
                                 value |-> assembleInvoice(db, shop, existing)])
                           EXCEPT !.replay = TRUE]
    /\ UNCHANGED <<db, cache, solo, everAllocated, calcItems, calcOut, draws>>

\* the statements after the lookup and COMMIT, or ROLLBACK on the first error
RaceWrite(c, shop, payload, requestId, busy, failAt) ==
    /\ race[c].pc = "looked"
    /\ LET r == IF busy /\ race[c].seen # db
                THEN [db |-> db, err |-> "Busy", value |-> NullAgg]
                ELSE transaction(db, createInvoiceWrites(db, shop, payload,
                                                         requestId, failAt))
       IN /\ db' = r.db
          /\ last' = Call("createInvoice", shop, requestId, r)
    /\ race' = [race EXCEPT ![c].pc = "done"]
    /\ UNCHANGED <<cache, solo, everAllocated, calcItems, calcOut, draws>>

RaceNext ==
    \/ \E c \in Callers : RaceLookup(c, RaceShop, RaceToken)
    \/ \E c \in Callers, p \in Payloads(RaceShop, Statuses, ItemLists),
          busy \in BOOLEAN, f \in {0, 4} :
          RaceWrite(c, RaceShop, p, RaceToken, busy, f)
    \/ \E i \in DOMAIN db.invoices, now \in Clock :
          DeleteInvoice(RaceShop, i, now, 0)
    \/ \E i \in DOMAIN db.invoices : AssembleInvoice(RaceShop, i)

RaceSpec == Init /\ [][RaceNext]_vars

\* C19: two createInvoice calls of one tenant with the same request token, both
\* past the idempotency lookup before either has persisted the mapping, leave
\* at most one invoice (header with its child rows) and at most one mapping
\* for the token in the store.
C19_OneInvoicePerToken ==
    /\ Cardinality(DOMAIN db.invoices) <= 1
    /\ DOMAIN db.snapshot = DOMAIN db.invoices
    /\ DOMAIN db.items = DOMAIN db.invoices
    /\ DOMAIN db.totals = DOMAIN db.invoices
    /\ DOMAIN db.idem \subseteq {RaceToken}
    /\ \A t \in DOMAIN db.idem : db.idem[t].entity_id \in DOMAIN db.invoices
    /\ (DOMAIN db.invoices # {}) => RaceToken \in DOMAIN db.idem

C19_Witness ==
    /\ \A c \in Callers :
          /\ race[c].pc = "done" /\ race[c].existing = NoId
          /\ RaceToken \notin DOMAIN race[c].seen.idem
    /\ last.op = "createInvoice" /\ last.err = "Constraint"
    /\ Cardinality(DOMAIN db.invoices) = 1
    /\ RaceToken \in DOMAIN db.idem

\* the rows of invoice i form a complete aggregate: snapshot, line items and a
\* totals row computed from those line items
Whole(d, i) ==
    /\ i \in DOMAIN d.snapshot /\ i \in DOMAIN d.items /\ i \in DOMAIN d.totals
    /\ d.totals[i] = calculateInvoiceTotals(ItemsOfRows(d.items[i]))

C21_DeleteNoPartialCommit ==
    [][(last'.op = "deleteInvoice" /\ last'.err # None)
          => /\ DOMAIN db'.invoices = DOMAIN db.invoices
             /\ \A i \in DOMAIN db.invoices :
                   db'.invoices[i].deleted_at = db.invoices[i].deleted_at]_vars

(***************************************************************************)
(* The home-snapshot cache (HomeSpec).                                     *)
(***************************************************************************)
\* C22: after a committed createInvoice, updateInvoice, deleteInvoice,
\* createPayment or deletePayment of a shop, the shop has no cached home
\* snapshot: the next home-snapshot request generates one.
C22_MutationBustsCache ==
    [][(/\ last'.op \in {"createInvoice", "updateInvoice", "deleteInvoice",
                         "createPayment", "deletePayment"}
        /\ last'.err = None /\ db' # db)
          => last'.shop \notin cache']_vars

(***************************************************************************)
(* AllocSpec: two shops, one invoice, payments that allocate to it once or *)
(* twice in one call, also from the shop that does not own it, with        *)
(* failures injected after the status writes of createPayment and after    *)
(* the row deletes of deletePayment.                                       *)
(***************************************************************************)
\* allocation lists of one or two entries, which may name the same invoice twice
AllocPairs(ids, amounts) ==
    UNION {[1..n -> AllocsOn(ids, amounts)] : n \in 1..2}

AllocData(shop, ids) ==
    {[partyType |-> "CUSTOMER", partyId |-> "c" \o shop, amount |-> <<100, 0>>,
      allocations |-> al] : al \in AllocPairs(ids, {<<50, 0>>})}

AllocNext ==
    \/ \E s \in Shops : \E p \in Payloads(s, {Null}, HomeItems) :
          CreateInvoice(s, p, Null, 0)
    \/ \E s \in Shops, i \in DOMAIN db.invoices : DeleteInvoice(s, i, 1, 0)
    \/ \E s \in Shops, f \in {0, 4} : \E data \in AllocData(s, DOMAIN db.invoices) :
          CreatePayment(s, data, f)
    \/ \E s \in Shops, p \in DOMAIN db.payments, f \in {0, 3} :
          DeletePayment(s, p, f)

AllocSpec == Init /\ [][AllocNext]_vars

\* the invoices named by the allocation rows of a payment
NamedIn(allocations) == {allocations[k].invoice_id : k \in 1..Len(allocations)}

\* C23: when a createPayment with allocations commits, and when a deletePayment
\* commits, every invoice of the calling shop that the payment's allocations
\* name (once or several times) has the status derived from the sum of the
\* allocations that remain for it across all payments and its grand total:
\* PAID if sum >= grand total, PARTIAL if 0 < sum < grand total, else UNPAID;
\* the allocations of a deleted payment are gone when the sum is taken.
C23_StatusAfterPayment ==
    [][/\ (last'.op = "createPayment" /\ last'.err = None)
          => \A i \in NamedIn(last'.value.allocations) :
                db'.invoices[i].shop_id = last'.shop
                   => db'.invoices[i].status = DerivedStatus(db', i)
       /\ (last'.op = "deletePayment" /\ last'.err = None)
          => /\ last'.key \notin DOMAIN db'.allocations
             /\ last'.key \in DOMAIN db.allocations
                   => \A i \in NamedIn(db.allocations[last'.key]) :
                         db'.invoices[i].shop_id = last'.shop
                            => db'.invoices[i].status = DerivedStatus(db', i)]_vars

C23_Witness ==
    /\ last.op = "createPayment" /\ last.err = None
    /\ Len(last.value.allocations) = 2
    /\ Cardinality(NamedIn(last.value.allocations)) = 1
    /\ Cardinality(DOMAIN db.allocations) = 2
    /\ \A i \in NamedIn(last.value.allocations) :
          /\ db.invoices[i].shop_id = last.shop
          /\ db.invoices[i].status = "PAID"

(***************************************************************************)
(* FrameSpec: one shop, one invoice with its photos and the payments       *)
(* allocated to it; the invoice is created, replaced by updateInvoice,     *)
(* and soft-deleted.                                                       *)
(***************************************************************************)
FrameNext ==
    \/ \E s \in LedgerShops : \E p \in Payloads(s, {Null}, ItemLists) :
          CreateInvoice(s, p, Null, 0)
    \/ \E s \in LedgerShops, i \in DOMAIN db.invoices :
          \E p \in Payloads(s, Statuses, ItemLists) : UpdateInvoice(s, i, p, 0)
    \/ \E s \in LedgerShops, i \in DOMAIN db.invoices : DeleteInvoice(s, i, 1, 0)
    \/ \E s \in LedgerShops, i \in DOMAIN db.invoices : AddInvoicePhoto(s, i)
    \/ \E s \in LedgerShops :
          \E data \in PayData(LedgerParties, {<<100, 0>>}, DOMAIN db.invoices,
                              {<<50, 0>>}) :
             CreatePayment(s, data, 0)
    \/ \E s \in LedgerShops, p \in DOMAIN db.payments : DeletePayment(s, p, 0)

FrameSpec == Init /\ [][FrameNext]_vars

C25_DeleteOnlyMarks ==
    [][(last'.op = "deleteInvoice" /\ last'.err = None)
          => /\ last'.key \in DOMAIN db'.invoices
             /\ db'.invoices[last'.key].deleted_at # 0
             /\ db' = [db EXCEPT
                         !.invoices[last'.key].deleted_at =
                              db'.invoices[last'.key].deleted_at,
                         !.audit = db'.audit]]_vars

C25_Witness ==
    /\ last.op = "deleteInvoice" /\ last.err = None
    /\ db.invoices[last.key].deleted_at # 0
    /\ db.invoices[last.key].status = "PARTIAL"
    /\ last.key \in DOMAIN db.items /\ last.key \in DOMAIN db.totals
    /\ \E ph \in DOMAIN db.photos : db.photos[ph].invoice_id = last.key
    /\ AllocatedTotal(db, last.key) > 0

(***************************************************************************)
(* CounterSpec: two shops that create up to MaxCounted invoices between    *)
(* them, with and without a request token, with failures injected after    *)
(* the counter increment, and that update and soft-delete them.            *)
(***************************************************************************)
CounterNext ==
    \/ \E s \in Shops, t \in Tokens \cup {Null}, f \in {0, 1} :
          \E p \in Payloads(s, {Null}, HomeItems) :
             CreateInvoiceUpTo(MaxCounted, s, p, t, f)
    \/ \E s \in Shops, i \in DOMAIN db.invoices :
          \E p \in Payloads(s, {"PAID"}, HomeItems) : UpdateInvoice(s, i, p, 0)
    \/ \E s \in Shops, i \in DOMAIN db.invoices : DeleteInvoice(s, i, 1, 0)

CounterSpec == Init /\ [][CounterNext]_vars

\* the headers of a shop, soft-deleted ones included
HeadersOf(d, shop) == {i \in DOMAIN d.invoices : d.invoices[i].shop_id = shop}

\* C26: for each shop, in every reachable state the invoice counter is its
\* seeded value plus the number of invoice headers of the shop (soft-deleted
\* included), and the integers of the issued invoice numbers are the ones
\* that follow the seed, consecutive, without gap or repeat; so a committed
\* createInvoice advances the counter by exactly 1 and a failed one, a replay,
\* updateInvoice and deleteInvoice leave it unchanged.
C26_CounterCountsHeaders ==
    \A s \in Shops :
       LET n == Cardinality(HeadersOf(db, s))
           seed == initializeShopSequences[<<s, "invoice_seq">>]
       IN /\ db.sequences[<<s, "invoice_seq">>] = seed + n
          /\ {db.invoices[i].invoice_number[2] : i \in HeadersOf(db, s)}
                = (seed + 1)..(seed + n)

C26_Witness ==
    /\ last.op = "createInvoice" /\ last.err = None /\ last.replay
    /\ Cardinality(HeadersOf(db, last.shop)) = 2
    /\ \E i \in HeadersOf(db, last.shop) : db.invoices[i].deleted_at # 0
    /\ db.sequences[<<last.shop, "invoice_seq">>] = 3
    /\ DOMAIN db.idem # {}

(***************************************************************************)
(* Rounding and the tax breakdown (CalcSpec).                              *)
(***************************************************************************)
Abs(x) == IF x < 0 THEN -x ELSE x

\* C27: the grand total calculateInvoiceTotals returns is a multiple of 100
\* minor units, the one nearest to subtotal + taxTotal, so that the rounding
\* adjustment grandTotal - (subtotal + taxTotal) lies between -50 and 50; it
\* is 0 when subtotal + taxTotal is a whole unit already.
C27_RoundsToNearestUnit ==
    LET before == calcOut.subtotal + calcOut.taxTotal
    IN /\ calcOut.grandTotal % 100 = 0
       /\ calcOut.roundOff = calcOut.grandTotal - before
       /\ -50 <= calcOut.roundOff /\ calcOut.roundOff <= 50
       /\ \A m \in {calcOut.grandTotal - 100, calcOut.grandTotal + 100} :
             Abs(m - before) >= Abs(calcOut.roundOff)
       /\ before % 100 = 0 => calcOut.roundOff = 0

C27_Witness ==
    /\ calcItems = <<Item(1, <<33, 33>>, 0), Item(1, <<33, 33>>, 0),
                     Item(1, <<33, 34>>, 0)>>
    /\ calcOut.subtotal = 10000
    /\ calcOut.roundOff = 0
    /\ calcOut.grandTotal = 10000

\* C28: for every list of line items the tax breakdown adds up to the tax
\* total, cgst + sgst + igst = taxTotal, with cgst = sgst, also when the tax
\* of a line is an odd number of minor units.
C28_TaxBreakdownAddsUp ==
    /\ calcOut.cgst + calcOut.sgst + calcOut.igst = calcOut.taxTotal
    /\ calcOut.cgst = calcOut.sgst

C30_MappingsAreStable ==
    [][/\ \A t \in DOMAIN db'.idem :
             /\ db'.idem[t].entity_id \in DOMAIN db'.invoices
             /\ db'.invoices[db'.idem[t].entity_id].shop_id = db'.idem[t].shop_id
       /\ \A t \in DOMAIN db.idem :
             t \in DOMAIN db'.idem /\ db'.idem[t] = db.idem[t]]_vars

C30_Witness ==
    /\ last.op = "deleteInvoice" /\ last.err = None
    /\ \E t \in DOMAIN db.idem :
          /\ db.idem[t].entity_id = last.key
          /\ db.idem[t].shop_id = last.shop
          /\ db.invoices[last.key].deleted_at # 0

====
